---- MODULE Spec2Model ----
(***************************************************************************)
(* The command line setup tool of Talk (src/unnamed/part_000) run against  *)
(* one shared Settings Store.                                              *)
(*                                                                         *)
(* Each run of the tool is one process: it parses --defaults, registers    *)
(* the mongoose disconnect as shutdown hook, calls performSetup() and      *)
(* finishes in the .then or the .catch handler of the returned promise.    *)
(*                                                                         *)
(* performSetup opens with a try/catch around SettingsService.retrieve().  *)
(* The try block always throws (the rejection of retrieve, or              *)
(* ErrSettingsInit when retrieve resolved), and the catch block leaves the *)
(* function on both of its paths: `return` for ErrSettingsNotInit (line    *)
(* 49), `throw err` for everything else (line 52).  Control therefore      *)
(* never arrives at line 55: the statements of lines 55-206 are executed   *)
(* by no run.  The closures handed to inquirer there are modelled as       *)
(* operators and exercised on their own: the confirmPassword filter in     *)
(* SpecConfirm, the settings and whitelist question sets in SpecCollect.   *)
(*                                                                         *)
(* SpecWizard is the InitialStep component of the install wizard           *)
(* (src/src/core/client/install/steps/components/InitialStep.tsx).         *)
(***************************************************************************)
EXTENDS Integers, Sequences, FiniteSets, TLC

VARIABLES
    store,      \* the Settings Store / Account Service: records held
    store0,     \* the store as it was before the first run (history)
    pc,         \* pc[p]: where run p stands
    defaults,   \* defaults[p]: program.defaults of run p
    retrieved,  \* retrieved[p]: how the awaited SettingsService.retrieve() settled
    settled,    \* settled[p]: how the promise of performSetup() settled
    calls,      \* calls[p]: every call run p has made to a collaborator, in order
    exitCode,   \* exitCode[p]: the process exit code, NoExit while running
    connected,  \* connected[p]: the mongoose connection of run p is open
    unitIn,     \* input of the closure under unit check
    unitOut,    \* result of the closure under unit check
    session,    \* the settings and whitelist question sets: question pending, draft
    wizard      \* the install wizard's InitialStep: props, clicks, callback calls

vars == <<store, store0, pc, defaults, retrieved, settled, calls, exitCode, connected,
          unitIn, unitOut, session, wizard>>

progVars == <<store, store0, pc, defaults, retrieved, settled, calls, exitCode, connected>>

unitVars == <<unitIn, unitOut, session, wizard>>

\* ------------------------------------------------------------------ bounds

\* Number of invocations of the tool (sequential or overlapping).
MaxRuns == 2

\* Number of answers a question set may see rejected by a validate function.
MaxRetries == 2

\* Number of clicks on 'Get Started' and of renders of InitialStep.
MaxClicks == 4

MaxRenders == 4

\* Number of distinct password strings the unit check draws from.
MaxPasswords == 3

Runs == 1..MaxRuns

NoExit == 0 - 1

PasswordPool == <<"Abc12345", "different", "short", "Str0ngPass!", "">>

Passwords == {PasswordPool[i] : i \in 1..MaxPasswords}

\* Failures of the storage other than "not initialized".
OtherErrors == {"ErrStorageUnavailable", "ErrCorruptRecord"}

Faults == {"none"} \cup OtherErrors

Call(fn, arg) == [fn |-> fn, arg |-> arg]

NoResult == [ok |-> FALSE, err |-> "pending"]

Pending == [state |-> "pending", err |-> ""]

\* ------------------------------------------------------- the collaborators

\* SettingsService.retrieve(): resolves when the single settings record
\* exists, rejects with ErrSettingsNotInit when it is absent, and rejects
\* with the storage's own error when the storage fails.
Retrieve(st, fault) ==
    IF fault # "none" THEN [ok |-> FALSE, err |-> fault]
    ELSE IF st.settings = 0 THEN [ok |-> FALSE, err |-> "ErrSettingsNotInit"]
    ELSE [ok |-> TRUE, err |-> ""]

\* util.shutdown(code): the exit code, 0 when no code is passed.
ShutdownCode(arg) == IF arg = "" THEN 0 ELSE 1

\* ------------------------------------------------------------ performSetup

\* The value thrown inside the try block (lines 38-44): the rejection of the
\* awaited retrieve, or ErrSettingsInit when retrieve resolved.
GuardTryWrongClass(r) == IF r.ok THEN "ErrSettingsNotInit" ELSE r.err

GuardTry(r) == IF r.ok THEN "ErrSettingsInit" ELSE r.err

\* The catch block (lines 45-53): `return` leaves performSetup, which
\* resolves its promise; `throw err` rejects it with the same error.
GuardCatchAnyError(err) == [kind |-> "return", err |-> ""]

GuardCatch(err) ==
    IF err = "ErrSettingsNotInit"
    THEN [kind |-> "return", err |-> ""]
    ELSE [kind |-> "throw", err |-> err]

\* The calls of the .then handler (lines 210-212).
ThenBodyWithCode == <<Call("util.shutdown", "1")>>

ThenBody == <<Call("util.shutdown", "")>>

\* The calls of the .catch handler (lines 213-216).
CatchBodyNoCode(e) == <<Call("console.error", e), Call("util.shutdown", "")>>

CatchBody(e) == <<Call("console.error", e), Call("util.shutdown", "1")>>

\* The hooks registered with util.onshutdown (line 21).
ShutdownHooks == <<Call("mongoose.disconnect", "")>>

\* ----------------------------------------------------------------- actions

\* A run starts: the arguments are parsed (lines 27-30), the shutdown hook
\* is registered and performSetup() runs up to its first await (line 40).
Launch(p) ==
    /\ pc[p] = "idle"
    /\ \E d \in BOOLEAN : defaults' = [defaults EXCEPT ![p] = d]
    /\ pc' = [pc EXCEPT ![p] = "awaitRetrieve"]
    /\ connected' = [connected EXCEPT ![p] = TRUE]
    /\ calls' = [calls EXCEPT ![p] = Append(@, Call("SettingsService.retrieve", ""))]
    /\ UNCHANGED <<store, store0, retrieved, settled, exitCode, unitVars>>

\* The awaited retrieve settles and performSetup resumes: the rest of the
\* try block and the catch block run, and the promise of performSetup settles.
GuardChecked(p) ==
    /\ pc[p] = "awaitRetrieve"
    /\ \E fault \in Faults :
         LET r == Retrieve(store, fault)
             c == GuardCatch(GuardTry(r))
         IN /\ retrieved' = [retrieved EXCEPT ![p] = r]
            /\ settled' = [settled EXCEPT ![p] =
                  IF c.kind = "return"
                  THEN [state |-> "resolved", err |-> ""]
                  ELSE [state |-> "rejected", err |-> c.err]]
    /\ pc' = [pc EXCEPT ![p] = "settled"]
    /\ UNCHANGED <<store, store0, defaults, calls, exitCode, connected, unitVars>>

\* The calls of a handler are made in order; util.shutdown runs the
\* registered hooks and ends the process with its code.
Finish(p, body) ==
    LET last == body[Len(body)]
    IN /\ last.fn = "util.shutdown"
       /\ calls' = [calls EXCEPT ![p] = @ \o body \o ShutdownHooks]
       /\ connected' = [connected EXCEPT ![p] = FALSE]
       /\ exitCode' = [exitCode EXCEPT ![p] = ShutdownCode(last.arg)]
       /\ pc' = [pc EXCEPT ![p] = "exited"]
       /\ UNCHANGED <<store, store0, defaults, retrieved, settled, unitVars>>

\* performSetup().then(...)
ThenHandler(p) ==
    /\ pc[p] = "settled"
    /\ settled[p].state = "resolved"
    /\ Finish(p, ThenBody)

\* performSetup().catch(...)
CatchHandler(p) ==
    /\ pc[p] = "settled"
    /\ settled[p].state = "rejected"
    /\ Finish(p, CatchBody(settled[p].err))

\* ----------------------------------------------------------- specification

Stores ==
    { [settings |-> 0, admins |-> 0],
      [settings |-> 1, admins |-> 0],
      [settings |-> 1, admins |-> 1] }

\* No confirmPassword answer is being filtered.
IdleFilter ==
    /\ unitIn = [password |-> "", confirmPassword |-> "", valid |-> {}]
    /\ unitOut = [state |-> "pending", value |-> "", validated |-> <<>>]

\* No question set has been issued.
IdleSession ==
    session = [q |-> "none", asked |-> {}, rejected |-> 0, error |-> "",
               answers |-> [organizationName |-> "undefined",
                            moderation |-> "undefined",
                            requireEmailConfirmation |-> "undefined",
                            inputWhitelistedDomains |-> "undefined",
                            whitelistedDomain |-> "undefined"],
               settings |-> [organizationName |-> "", moderation |-> "",
                             requireEmailConfirmation |-> "",
                             whitelist |-> <<>>],
               draft0 |-> [organizationName |-> "", moderation |-> "",
                           requireEmailConfirmation |-> "",
                           whitelist |-> <<>>]]

\* The wizard page is not open.
IdleWizard ==
    wizard = [mounted |-> FALSE, goToNextStep |-> FALSE, renders |-> 0,
              clicks |-> 0, invoked |-> 0, threw |-> FALSE]

InitRuns ==
    /\ pc = [p \in Runs |-> "idle"]
    /\ defaults = [p \in Runs |-> FALSE]
    /\ retrieved = [p \in Runs |-> NoResult]
    /\ settled = [p \in Runs |-> Pending]
    /\ calls = [p \in Runs |-> <<>>]
    /\ exitCode = [p \in Runs |-> NoExit]
    /\ connected = [p \in Runs |-> FALSE]

Init ==
    /\ store \in Stores
    /\ store0 = store
    /\ InitRuns
    /\ IdleFilter
    /\ IdleSession
    /\ IdleWizard

Next ==
    \E p \in Runs :
        \/ Launch(p)
        \/ GuardChecked(p)
        \/ ThenHandler(p)
        \/ CatchHandler(p)

Spec == Init /\ [][Next]_vars

\* ------------------------------------------- the confirmPassword filter

\* UsersService.isValidPassword(password): resolves with the password when
\* the strength policy (the set valid) accepts it, rejects with an error
\* carrying a message otherwise.
IsValidPassword(password, valid) ==
    IF password \in valid
    THEN [state |-> "resolved", value |-> password, err |-> [message |-> ""]]
    ELSE [state |-> "rejected", value |-> "",
          err |-> [message |-> "ErrPassword.message"]]

\* .catch(err => { throw err.message; }) (lines 183-185): a rejection is
\* rethrown as the message of its error, a resolution passes through.
ThrowMessage(r) ==
    IF r.state = "rejected"
    THEN [state |-> "rejected", value |-> r.err.message]
    ELSE [state |-> "resolved", value |-> r.value]

\* The filter of the confirmPassword question (lines 178-186); answers is
\* the hash of the answers given so far.  validated lists the values
\* UsersService.isValidPassword was called on.
ConfirmPasswordFilterStrengthFirst(confirmPassword, answers, valid) ==
    LET r == ThrowMessage(IsValidPassword(confirmPassword, valid))
    IN IF r.state = "rejected"
       THEN [state |-> r.state, value |-> r.value,
             validated |-> <<confirmPassword>>]
       ELSE IF answers.password # confirmPassword
       THEN [state |-> "rejected", value |-> "Passwords do not match",
             validated |-> <<confirmPassword>>]
       ELSE [state |-> r.state, value |-> r.value,
             validated |-> <<confirmPassword>>]

ConfirmPasswordFilter(confirmPassword, answers, valid) ==
    IF answers.password # confirmPassword
    THEN [state |-> "rejected", value |-> "Passwords do not match",
          validated |-> <<>>]
    ELSE LET r == ThrowMessage(IsValidPassword(confirmPassword, valid))
         IN [state |-> r.state, value |-> r.value,
             validated |-> <<confirmPassword>>]

\* inquirer applies the filter to the answer typed for confirmPassword.
ApplyConfirmPasswordFilter ==
    /\ unitOut.state = "pending"
    /\ unitOut' = ConfirmPasswordFilter(unitIn.confirmPassword,
                                        [password |-> unitIn.password],
                                        unitIn.valid)
    /\ UNCHANGED <<progVars, unitIn, session, wizard>>

InitConfirm ==
    /\ store = [settings |-> 0, admins |-> 0]
    /\ store0 = store
    /\ InitRuns
    /\ unitIn \in [password : Passwords, confirmPassword : Passwords,
                   valid : SUBSET Passwords]
    /\ unitOut = [state |-> "pending", value |-> "", validated |-> <<>>]
    /\ IdleSession
    /\ IdleWizard

NextConfirm == ApplyConfirmPasswordFilter

SpecConfirm == InitConfirm /\ [][NextConfirm]_vars

\* ------------------------------- the settings and whitelist question sets

\* models/enum/moderation_options: the closed set of moderation modes.
MODERATION_OPTIONS == {"PRE", "POST"}

\* Values handed to the validate function of the organizationName question.
Names == {"", "Acme", "Beta"}

\* Values handed to the validate function of the whitelistedDomain question.
Domains == {"", "example.com", "coral.org"}

\* Whitelists a fresh SettingModel may carry.
DefaultWhitelists == {<<>>, <<"localhost">>, <<"old.com", "example.com">>}

\* new SettingModel() (line 71): the draft with the engine's defaults.
NewSettingModel(whitelist) ==
    [organizationName |-> "", moderation |-> "PRE",
     requireEmailConfirmation |-> "false", whitelist |-> whitelist]

\* validate of the organizationName question (lines 83-89).
OrganizationNameValidateAll(input) == [ok |-> TRUE, message |-> ""]

OrganizationNameValidate(input) ==
    IF input # ""
    THEN [ok |-> TRUE, message |-> ""]
    ELSE [ok |-> FALSE, message |-> "Organization Name is required."]

\* validate of the whitelistedDomain question (lines 125-131).
WhitelistedDomainValidate(input) ==
    IF input # ""
    THEN [ok |-> TRUE, message |-> ""]
    ELSE [ok |-> FALSE, message |-> "Whitelisted Domain cannot be empty."]

\* Object.keys(answers).forEach(...) (lines 107-111): every answer that is
\* not undefined overwrites the field of the draft.
Answered(answers, key, old) ==
    IF answers[key] # "undefined" THEN answers[key] ELSE old

ApplyAnswers(settings, answers) ==
    [settings EXCEPT
        !.organizationName = Answered(answers, "organizationName", @),
        !.moderation = Answered(answers, "moderation", @),
        !.requireEmailConfirmation = Answered(answers, "requireEmailConfirmation", @)]

\* when of the whitelistedDomain question (line 124).
WhenAlways(answers) == TRUE

WhenWhitelistedDomain(answers) == answers.inputWhitelistedDomains = "true"

\* if (answers.inputWhitelistedDomains) { settings.domains.whitelist = [...] }
\* (lines 135-137).
AssignWhitelistAppend(settings, answers) ==
    IF answers.inputWhitelistedDomains = "true"
    THEN [settings EXCEPT !.whitelist = Append(@, answers.whitelistedDomain)]
    ELSE settings

AssignWhitelist(settings, answers) ==
    IF answers.inputWhitelistedDomains = "true"
    THEN [settings EXCEPT !.whitelist = <<answers.whitelistedDomain>>]
    ELSE settings

\* inquirer moves to question q.
Ask(s, q) == [s EXCEPT !.q = q, !.asked = @ \cup {q}, !.error = ""]

\* inquirer shows the message of a failed validate and keeps the question.
Reject(s, message) == [s EXCEPT !.rejected = @ + 1, !.error = message]

\* An answer to the organizationName question (lines 78-90).
AnswerOrganizationName ==
    /\ session.q = "organizationName"
    /\ \E input \in Names :
         LET v == OrganizationNameValidate(input)
         IN IF v.ok
            THEN session' = Ask([session EXCEPT !.answers.organizationName = input],
                                "moderation")
            ELSE /\ session.rejected < MaxRetries
                 /\ session' = Reject(session, v.message)
    /\ UNCHANGED <<progVars, unitIn, unitOut, wizard>>

\* A choice at the moderation question (lines 91-97).
AnswerModeration ==
    /\ session.q = "moderation"
    /\ \E m \in MODERATION_OPTIONS :
         session' = Ask([session EXCEPT !.answers.moderation = m],
                        "requireEmailConfirmation")
    /\ UNCHANGED <<progVars, unitIn, unitOut, wizard>>

\* The answer to the last question of the first set (lines 98-103): the
\* prompt resolves, the answers are applied to the draft (lines 107-111)
\* and the second set is issued (line 113).
AnswerRequireEmailConfirmation ==
    /\ session.q = "requireEmailConfirmation"
    /\ \E b \in {"true", "false"} :
         LET s == [session EXCEPT !.answers.requireEmailConfirmation = b]
         IN session' = Ask([s EXCEPT !.settings = ApplyAnswers(@, s.answers)],
                           "inputWhitelistedDomains")
    /\ UNCHANGED <<progVars, unitIn, unitOut, wizard>>

\* The answer to the gate question (lines 114-119): the domain question is
\* asked when its `when` holds, otherwise the prompt resolves and lines
\* 135-139 run.
AnswerInputWhitelistedDomains ==
    /\ session.q = "inputWhitelistedDomains"
    /\ \E b \in {"true", "false"} :
         LET s == [session EXCEPT !.answers.inputWhitelistedDomains = b]
         IN IF WhenWhitelistedDomain(s.answers)
            THEN session' = Ask(s, "whitelistedDomain")
            ELSE session' = [s EXCEPT !.q = "collected",
                                      !.settings = AssignWhitelist(@, s.answers)]
    /\ UNCHANGED <<progVars, unitIn, unitOut, wizard>>

\* An answer to the whitelistedDomain question (lines 120-132); once it is
\* accepted the prompt resolves and lines 135-139 run.
AnswerWhitelistedDomain ==
    /\ session.q = "whitelistedDomain"
    /\ \E input \in Domains :
         LET v == WhitelistedDomainValidate(input)
             s == [session EXCEPT !.answers.whitelistedDomain = input]
         IN IF v.ok
            THEN session' = [s EXCEPT !.q = "collected", !.error = "",
                                      !.settings = AssignWhitelist(@, s.answers)]
            ELSE /\ session.rejected < MaxRetries
                 /\ session' = Reject(session, v.message)
    /\ UNCHANGED <<progVars, unitIn, unitOut, wizard>>

\* The draft is created and the first question set is issued (lines 71-77).
InitCollect ==
    /\ store = [settings |-> 0, admins |-> 0]
    /\ store0 = store
    /\ InitRuns
    /\ IdleFilter
    /\ IdleWizard
    /\ \E w \in DefaultWhitelists :
         session = [q |-> "organizationName", asked |-> {"organizationName"},
                    rejected |-> 0, error |-> "",
                    answers |-> [organizationName |-> "undefined",
                                 moderation |-> "undefined",
                                 requireEmailConfirmation |-> "undefined",
                                 inputWhitelistedDomains |-> "undefined",
                                 whitelistedDomain |-> "undefined"],
                    settings |-> NewSettingModel(w),
                    draft0 |-> NewSettingModel(w)]

NextCollect ==
    \/ AnswerOrganizationName
    \/ AnswerModeration
    \/ AnswerRequireEmailConfirmation
    \/ AnswerInputWhitelistedDomains
    \/ AnswerWhitelistedDomain

SpecCollect == InitCollect /\ [][NextCollect]_vars

\* ------------------------------------------------ the wizard's InitialStep

\* handleGoToNextStep (InitialStep.tsx lines 7-11): the number of calls of
\* props.goToNextStep it makes and whether it throws.
HandleGoToNextStepUnguarded(props) ==
    IF props.goToNextStep
    THEN [invoked |-> 1, threw |-> FALSE]
    ELSE [invoked |-> 0, threw |-> TRUE]

HandleGoToNextStep(props) ==
    IF props.goToNextStep
    THEN [invoked |-> 1, threw |-> FALSE]
    ELSE [invoked |-> 0, threw |-> FALSE]

\* render (lines 13-33) hands the handler to the Button as onClick and
\* calls nothing.
RenderEffect(props) == [invoked |-> 0, threw |-> FALSE]

Effect(w, e) ==
    [w EXCEPT !.invoked = @ + e.invoked, !.threw = @ \/ e.threw]

\* The wizard mounts the step, with or without a goToNextStep callback.
Mount ==
    /\ ~wizard.mounted
    /\ \E provided \in BOOLEAN :
         LET w == [wizard EXCEPT !.mounted = TRUE, !.goToNextStep = provided,
                                 !.renders = 1]
         IN wizard' = Effect(w, RenderEffect(w))
    /\ UNCHANGED <<progVars, unitIn, unitOut, session>>

\* The wizard renders the step again, possibly with other props.
Rerender ==
    /\ wizard.mounted
    /\ wizard.renders < MaxRenders
    /\ \E provided \in BOOLEAN :
         LET w == [wizard EXCEPT !.goToNextStep = provided, !.renders = @ + 1]
         IN wizard' = Effect(w, RenderEffect(w))
    /\ UNCHANGED <<progVars, unitIn, unitOut, session>>

\* A click on 'Get Started': the Button calls its onClick.
Click ==
    /\ wizard.mounted
    /\ wizard.clicks < MaxClicks
    /\ wizard' = Effect([wizard EXCEPT !.clicks = @ + 1],
                        HandleGoToNextStep(wizard))
    /\ UNCHANGED <<progVars, unitIn, unitOut, session>>

InitWizard ==
    /\ store = [settings |-> 0, admins |-> 0]
    /\ store0 = store
    /\ InitRuns
    /\ IdleFilter
    /\ IdleSession
    /\ IdleWizard

NextWizard ==
    \/ Mount
    \/ Rerender
    \/ Click

SpecWizard == InitWizard /\ [][NextWizard]_vars

\* ------------------------------------------------------------------ claims

Made(p, fn) == \E i \in 1..Len(calls[p]) : calls[p][i].fn = fn

Count(p, fn) == Cardinality({i \in 1..Len(calls[p]) : calls[p][i].fn = fn})

PersistCalls == {"SettingsService.init", "SetupService.setup"}

WriteCalls == PersistCalls \cup {"MigrationService.run"}

SuccessLines == {"Settings created.", "User <id> created.", "Talk is now installed!"}

NoWrites(p) == \A i \in 1..Len(calls[p]) : calls[p][i].fn \notin WriteCalls

NoPrompt(p) == ~Made(p, "inquirer.prompt")

NoSuccessLine(p) ==
    \A i \in 1..Len(calls[p]) :
        ~(calls[p][i].fn = "console.log" /\ calls[p][i].arg \in SuccessLines)

Exited(p) == pc[p] = "exited"

\* C1: a run whose SettingsService.retrieve succeeded is rejected with
\* ErrSettingsInit, makes no write call (init, setup, run) at any point, in
\* either mode, and exits with a non-zero code.
C1_AlreadyInstalledFails ==
    \A p \in Runs :
        retrieved[p].ok =>
            /\ settled[p] = [state |-> "rejected", err |-> "ErrSettingsInit"]
            /\ NoWrites(p)
            /\ store = store0
            /\ Exited(p) => exitCode[p] = 1

\* A defaults run and an interactive run have both found the store
\* initialized and have exited.
C1_Witness ==
    \E p, q \in Runs :
        /\ defaults[p] /\ ~defaults[q]
        /\ retrieved[p].ok /\ retrieved[q].ok
        /\ Exited(p) /\ Exited(q)
        /\ exitCode[p] = 1 /\ exitCode[q] = 1

\* C2: a finished --defaults run that found the store uninitialized has
\* called SettingsService.init exactly once, has run the pending migrations
\* exactly once, and the store holds exactly one settings record.
C2_DefaultsCreatesSettings ==
    \A p \in Runs :
        (Exited(p) /\ defaults[p] /\ retrieved[p].err = "ErrSettingsNotInit") =>
            /\ Count(p, "SettingsService.init") = 1
            /\ Count(p, "MigrationService.listPending") = 1
            /\ Count(p, "MigrationService.run") = 1
            /\ store.settings = 1

\* C3: a finished interactive run that found the store uninitialized has
\* issued the prompts, has called SetupService.setup exactly once and has
\* exited with code 0.
C3_InteractiveProceeds ==
    \A p \in Runs :
        (Exited(p) /\ ~defaults[p] /\ retrieved[p].err = "ErrSettingsNotInit") =>
            /\ Made(p, "inquirer.prompt")
            /\ Count(p, "SetupService.setup") = 1
            /\ exitCode[p] = 0

\* C5: a run that exits with code 0 has persisted the settings (init or
\* setup) and has run the pending migrations.
C5_ExitZeroOnlyAfterPersist ==
    \A p \in Runs :
        exitCode[p] = 0 =>
            /\ \E fn \in PersistCalls : Made(p, fn)
            /\ Made(p, "MigrationService.run")

\* C6: a run that exits with code 0, in either mode, has called
\* MigrationService.run after its persist call.
C6_MigrationsAfterPersist ==
    \A p \in Runs :
        exitCode[p] = 0 =>
            \E i, j \in 1..Len(calls[p]) :
                /\ i < j
                /\ calls[p][i].fn \in PersistCalls
                /\ calls[p][j].fn = "MigrationService.run"

\* C7: a run whose performSetup was rejected has printed no success line,
\* and once it has exited it has written the error to the error stream and
\* its exit code is not 0.
C7_FailedExitsNonZero ==
    \A p \in Runs :
        settled[p].state = "rejected" =>
            /\ NoSuccessLine(p)
            /\ Exited(p) =>
                 /\ exitCode[p] # 0
                 /\ \E i \in 1..Len(calls[p]) :
                        calls[p][i] = Call("console.error", settled[p].err)

\* Two runs have failed for different reasons and have exited.
C7_Witness ==
    \E p, q \in Runs :
        /\ Exited(p) /\ Exited(q)
        /\ settled[p] = [state |-> "rejected", err |-> "ErrSettingsInit"]
        /\ settled[q].state = "rejected" /\ settled[q].err \in OtherErrors

\* C8: when retrieve failed with an error other than ErrSettingsNotInit,
\* performSetup is rejected with that same error, the run makes no prompt
\* and no write, and it exits with a non-zero code.
C8_UnknownErrorHalts ==
    \A p \in Runs :
        retrieved[p].err \in OtherErrors =>
            /\ settled[p] = [state |-> "rejected", err |-> retrieved[p].err]
            /\ NoPrompt(p)
            /\ NoWrites(p)
            /\ store = store0
            /\ Exited(p) => exitCode[p] = 1

\* Against an uninitialized store, a run has hit a storage failure and has
\* exited with code 1.
C8_Witness ==
    \E p \in Runs :
        /\ store0.settings = 0
        /\ retrieved[p].err = "ErrStorageUnavailable"
        /\ Exited(p) /\ exitCode[p] = 1

\* C9: with the store uninitialized before the first run, at most one
\* settings record exists, at most one run exits with code 0, and every
\* other finished run has failed without calling SetupService.setup.
C9_AtMostOneInstall ==
    store0.settings = 0 =>
        /\ store.settings <= 1
        /\ Cardinality({p \in Runs : exitCode[p] = 0}) <= 1
        /\ \A p, q \in Runs :
             (p # q /\ exitCode[p] = 0 /\ Exited(q)) =>
                 /\ exitCode[q] # 0
                 /\ ~Made(q, "SetupService.setup")

\* C10: when confirmPassword differs from password the filter rejects with
\* the mismatch error and isValidPassword was called on nothing; whenever
\* isValidPassword was called, it was called once, on a confirmPassword
\* equal to password.
C10_MismatchBeforeStrength ==
    unitOut.state # "pending" =>
        /\ unitIn.confirmPassword # unitIn.password =>
             /\ unitOut.state = "rejected"
             /\ unitOut.value = "Passwords do not match"
             /\ unitOut.validated = <<>>
        /\ unitOut.validated # <<>> =>
             /\ unitIn.confirmPassword = unitIn.password
             /\ unitOut.validated = <<unitIn.confirmPassword>>

\* password "Abc12345" passes the policy, confirmPassword "different" does
\* not, and the filter has rejected with the mismatch error.
C10_Witness ==
    /\ unitIn.password = "Abc12345"
    /\ unitIn.confirmPassword = "different"
    /\ "Abc12345" \in unitIn.valid
    /\ "different" \notin unitIn.valid
    /\ unitOut.state = "rejected"
    /\ unitOut.value = "Passwords do not match"

\* C15: a --defaults run that has exited with code 0 has issued no prompt,
\* has called neither SetupService.setup nor a UsersService validation,
\* and the store holds a settings record with the administrator accounts
\* unchanged.
C15_DefaultsSettingsOnly ==
    \A p \in Runs :
        (Exited(p) /\ defaults[p] /\ exitCode[p] = 0) =>
            /\ NoPrompt(p)
            /\ ~Made(p, "SetupService.setup")
            /\ ~Made(p, "UsersService.isValidUsername")
            /\ ~Made(p, "UsersService.isValidPassword")
            /\ store.settings = 1
            /\ store.admins = store0.admins

\* C17: a run has called util.shutdown (and with it the registered
\* mongoose.disconnect) exactly once when it has exited and not at all
\* before; without a code and with exit code 0 exactly when performSetup
\* resolved, with code 1 exactly when it was rejected; the connection is
\* open while performSetup awaits.
C17_ShutdownOncePerRun ==
    \A p \in Runs :
        /\ Count(p, "util.shutdown") = (IF Exited(p) THEN 1 ELSE 0)
        /\ Count(p, "mongoose.disconnect") = (IF Exited(p) THEN 1 ELSE 0)
        /\ pc[p] \in {"awaitRetrieve", "settled"} => connected[p]
        /\ Exited(p) =>
             /\ ~connected[p]
             /\ settled[p].state = "resolved" <=>
                    (\E i \in 1..Len(calls[p]) : calls[p][i] = Call("util.shutdown", ""))
             /\ settled[p].state = "rejected" <=>
                    (\E i \in 1..Len(calls[p]) : calls[p][i] = Call("util.shutdown", "1"))
             /\ exitCode[p] = (IF settled[p].state = "resolved" THEN 0 ELSE 1)

\* One run has exited after performSetup resolved and one after it was
\* rejected.
C17_Witness ==
    \E p, q \in Runs :
        /\ Exited(p) /\ settled[p].state = "resolved" /\ exitCode[p] = 0
        /\ Exited(q) /\ settled[q].state = "rejected" /\ exitCode[q] = 1
        /\ ~connected[p] /\ ~connected[q]

\* C12: once the whitelist question set is resolved with the gate answered
\* true and the domain d, the draft's whitelist is exactly <<d>>, whatever
\* the fresh draft's whitelist was.
C12_WhitelistReplaced ==
    (session.q = "collected" /\ session.answers.inputWhitelistedDomains = "true") =>
        session.settings.whitelist = <<session.answers.whitelistedDomain>>

\* The fresh draft carried two domains, the gate was affirmed and
\* "example.com" was given.
C12_Witness ==
    /\ session.q = "collected"
    /\ session.draft0.whitelist = <<"old.com", "example.com">>
    /\ session.answers.inputWhitelistedDomains = "true"
    /\ session.answers.whitelistedDomain = "example.com"
    /\ session.settings.whitelist = <<"example.com">>

\* C13: when the gate is answered false the whitelistedDomain question is
\* never asked nor answered, the question set is resolved, and the draft's
\* whitelist is the one the fresh draft had.
C13_WhitelistUntouched ==
    session.answers.inputWhitelistedDomains = "false" =>
        /\ "whitelistedDomain" \notin session.asked
        /\ session.answers.whitelistedDomain = "undefined"
        /\ session.q = "collected"
        /\ session.settings.whitelist = session.draft0.whitelist

\* The fresh draft carried a whitelist and the gate was declined.
C13_Witness ==
    /\ session.q = "collected"
    /\ session.answers.inputWhitelistedDomains = "false"
    /\ session.draft0.whitelist = <<"localhost">>
    /\ session.settings.whitelist = <<"localhost">>

\* C18: an empty organization name or whitelisted domain is rejected with
\* the question still pending (the session goes on), no accepted answer is
\* empty, and the organization name and the whitelisted domain written to
\* the draft are never the empty string.
C18_EmptyAnswerAskedAgain ==
    /\ session.error = "Organization Name is required." =>
           session.q = "organizationName"
    /\ session.error = "Whitelisted Domain cannot be empty." =>
           session.q = "whitelistedDomain"
    /\ session.rejected > 0 /\ session.error = "" =>
           session.q \notin {"organizationName", "none"}
    /\ session.answers.organizationName # ""
    /\ session.answers.whitelistedDomain # ""
    /\ session.q \in {"inputWhitelistedDomains", "whitelistedDomain", "collected"} =>
           /\ session.settings.organizationName # ""
           /\ session.settings.organizationName = session.answers.organizationName
    /\ \A i \in 1..Len(session.settings.whitelist) :
           session.settings.whitelist[i] # ""

\* Two empty answers were rejected, and the session still completed with a
\* name and a domain.
C18_Witness ==
    /\ session.q = "collected"
    /\ session.rejected >= 2
    /\ session.settings.organizationName = "Acme"
    /\ session.settings.whitelist = <<"coral.org">>

\* C19: every click on 'Get Started' calls goToNextStep exactly once when
\* the callback is provided and calls nothing, throws nothing and changes
\* nothing else when it is absent; a step without a click (a render) calls
\* nothing.
C19_ClickCallsOnceIfProvided ==
    [][ /\ wizard'.clicks = wizard.clicks + 1 =>
             /\ wizard'.invoked =
                    wizard.invoked + (IF wizard.goToNextStep THEN 1 ELSE 0)
             /\ wizard'.threw = wizard.threw
             /\ wizard'.goToNextStep = wizard.goToNextStep
             /\ wizard'.renders = wizard.renders
        /\ wizard'.clicks = wizard.clicks =>
             /\ wizard'.invoked = wizard.invoked
             /\ wizard'.threw = wizard.threw
        /\ ~wizard'.threw ]_vars

\* The step was rendered several times and clicked both with and without
\* the callback.
C19_Witness ==
    /\ wizard.renders >= 2
    /\ wizard.clicks >= 3
    /\ wizard.invoked >= 1
    /\ wizard.invoked < wizard.clicks
    /\ ~wizard.goToNextStep
    /\ ~wizard.threw

====
